---------------------------- MODULE Spec2Model ----------------------------
(***************************************************************************)
(* Model of the amm_info request handler of clio                           *)
(* (src/rpc/handlers/AMMInfo.cpp, src/rpc/AMMHelpers.cpp).                 *)
(*                                                                         *)
(* One request is followed from the JSON value handed to the handler to    *)
(* the Result returned by AMMInfoHandler::process.  Every backend read of  *)
(* process is a suspension point (ctx.yield): one action of the model runs *)
(* the code from one read to the point where the next read is issued.      *)
(* The ledger store is a versioned key/value store: whether an object      *)
(* exists, and what it holds, depends on the sequence it is read at.  The  *)
(* store's known range can grow between any two steps of the request.      *)
(***************************************************************************)
EXTENDS Integers, Sequences, FiniteSets, TLC

\* Largest ledger sequence of the model.
MaxSeq == 3

-----------------------------------------------------------------------------
(* Values *)

Never == MaxSeq + 1

NoOptInt == [has |-> FALSE, v |-> 0]
SomeInt(n) == [has |-> TRUE, v |-> n]

NoOptStr == [has |-> FALSE, v |-> ""]
SomeStr(s) == [has |-> TRUE, v |-> s]

NoOptBool == [has |-> FALSE, v |-> FALSE]
SomeBool(b) == [has |-> TRUE, v |-> b]

\* Currency codes are sequences of strings; the LP-token currency is a
\* synthetic code derived from two ordinary codes.
xrpCurrency == <<"XRP">>
usdCurrency == <<"USD">>

\* ripple::xrpAccount(): the all-zero account id, the issuer of the native asset.
xrpAccount == "0"
AmmAccount == "AMM"
HolderAccount == "A"
IssuerAccount == "I"

\* ripple::xrpIssue()
xrpIssue == [currency |-> xrpCurrency, account |-> xrpAccount]

\* Byte order of currency codes and of account ids (ripple::base_uint
\* comparison): the all-zero value is the smallest.
CurrencyRank(c) ==
    IF c = xrpCurrency THEN 0
    ELSE IF c = usdCurrency THEN 1
    ELSE 2

AccountRank(a) ==
    IF a = xrpAccount THEN 0
    ELSE IF a = HolderAccount THEN 1
    ELSE IF a = AmmAccount THEN 2
    ELSE 3

\* ripple::Issue ordering: by currency, then by account.
IssueLess(x, y) ==
    \/ CurrencyRank(x.currency) < CurrencyRank(y.currency)
    \/ /\ x.currency = y.currency
       /\ AccountRank(x.account) < AccountRank(y.account)

-----------------------------------------------------------------------------
(* Text of the request *)

Digits == {"0", "1", "2", "3", "4", "5", "6", "7", "8", "9"}

DigitValue(c) ==
    CASE c = "0" -> 0 [] c = "1" -> 1 [] c = "2" -> 2 [] c = "3" -> 3
      [] c = "4" -> 4 [] c = "5" -> 5 [] c = "6" -> 6 [] c = "7" -> 7
      [] c = "8" -> 8 [] c = "9" -> 9

validatedString == <<"v", "a", "l", "i", "d", "a", "t", "e", "d">>

\* Length of the longest prefix of s made of digits.
RECURSIVE DigitPrefixLen(_)
DigitPrefixLen(s) ==
    IF s = <<>> \/ Head(s) \notin Digits THEN 0
    ELSE 1 + DigitPrefixLen(Tail(s))

\* The characters std::isspace accepts; the vertical tab has no escape
\* in a TLA+ string and is written out.
WhiteSpace == {" ", "\t", "\n", "\r", "\f", "<VT>"}

\* Length of the longest prefix of s made of white space.
RECURSIVE SpacePrefixLen(_)
SpacePrefixLen(s) ==
    IF s = <<>> \/ Head(s) \notin WhiteSpace THEN 0
    ELSE 1 + SpacePrefixLen(Tail(s))

\* The digits of s as a number, accumulated below zero so that every int
\* is reached: overflow is set when the number leaves the range of int on
\* that side, and v is then of no use.
RECURSIVE NegDigitsValue(_, _)
NegDigitsValue(s, acc) ==
    IF s = <<>> THEN [overflow |-> FALSE, v |-> acc]
    ELSE IF \/ acc < -214748364
            \/ acc = -214748364 /\ DigitValue(Head(s)) > 8
    THEN [overflow |-> TRUE, v |-> 0]
    ELSE NegDigitsValue(Tail(s), 10 * acc - DigitValue(Head(s)))

\* std::stoi(str) with base 10: skips leading white space, takes one
\* optional sign, converts the digits that follow and stops at the first
\* other character; throws std::invalid_argument when there is no digit
\* and std::out_of_range when the number does not fit int.
stoi(s) ==
    LET afterSpace == SubSeq(s, SpacePrefixLen(s) + 1, Len(s))
        signed == afterSpace # <<>> /\ Head(afterSpace) \in {"+", "-"}
        negative == signed /\ Head(afterSpace) = "-"
        afterSign == IF signed THEN Tail(afterSpace) ELSE afterSpace
        n == DigitPrefixLen(afterSign)
        m == NegDigitsValue(SubSeq(afterSign, 1, n), 0)
    IN  IF n = 0
        THEN [threw |-> TRUE, what |-> "invalid_argument", v |-> 0]
        ELSE IF m.overflow \/ (~negative /\ m.v < -2147483647)
        THEN [threw |-> TRUE, what |-> "out_of_range", v |-> 0]
        ELSE [threw |-> FALSE, what |-> "", v |-> IF negative THEN m.v ELSE -m.v]

\* An unsigned 32-bit number, as its two 16-bit halves.
Uint32(hi, lo) == [hi |-> hi, lo |-> lo]

\* The conversion of the integer w * 2^32 + n to uint32_t: the number
\* modulo 2^32, in which w * 2^32 vanishes.
ToUint32(w, n) == Uint32((n \div 65536) % 65536, n % 65536)

\* std::optional<uint32_t>
NoOptU32 == [has |-> FALSE, v |-> Uint32(0, 0)]
SomeU32(u) == [has |-> TRUE, v |-> u]

\* Addresses known to the model and the account ids they encode.
AddressBook ==
    { <<"rA", HolderAccount>>, <<"rI", IssuerAccount>>, <<"rAMM", AmmAccount>> }

\* ripple accountFromStringStrict: the decoded id, or nothing when the
\* string is not a well-formed address.
accountFromStringStrict(s) ==
    IF \E e \in AddressBook : e[1] = s
    THEN SomeStr((CHOOSE e \in AddressBook : e[1] = s)[2])
    ELSE NoOptStr

\* ripple::to_string(AccountID)
to_string(id) ==
    IF \E e \in AddressBook : e[2] = id
    THEN (CHOOSE e \in AddressBook : e[2] = id)[1]
    ELSE "rrrrrrrrrrrrrrrrrrrrrhoLvTp"

\* ripple::to_currency: "XRP" is the native code, a three letter code is
\* itself.
to_currency(code) ==
    IF code = "XRP" THEN xrpCurrency ELSE <<code>>


-----------------------------------------------------------------------------
(* The request as JSON, and AMMInfoHandler::Input *)

\* A JSON ledger_index: absent, a number, or a string.  The number is a
\* 64-bit integer, w * 2^32 + n.
NoIndex == [t |-> "absent", w |-> 0, n |-> 0, s |-> <<>>]
WideIndex(w, n) == [t |-> "int", w |-> w, n |-> n, s |-> <<>>]
IntIndex(n) == WideIndex(0, n)
StrIndex(s) == [t |-> "string", w |-> 0, n |-> 0, s |-> s]

\* The digits of 2^31, the smallest number that does not fit int.
TwoTo31String == <<"2", "1", "4", "7", "4", "8", "3", "6", "4", "8">>

\* The digest of the header of ledger s.
LedgerHashOf(s) == 1000 + s

LedgerSpecifiers ==
    { [ledger_hash |-> NoOptInt, ledger_index |-> i] :
        i \in {NoIndex, StrIndex(validatedString), StrIndex(<<"2">>),
               StrIndex(<<"x">>), StrIndex(<<"1", "x">>),
               StrIndex(<<"-", "1">>), StrIndex(TwoTo31String),
               IntIndex(-1), WideIndex(1, 1)}
              \cup {IntIndex(n) : n \in 1..(MaxSeq + 1)} }
    \cup { [ledger_hash |-> SomeInt(LedgerHashOf(s)), ledger_index |-> NoIndex] :
             s \in {1, Never} }
    \cup { [ledger_hash |-> SomeInt(LedgerHashOf(1)), ledger_index |-> IntIndex(2)] }

AssetDescriptors ==
    { [currency |-> "XRP", issuer |-> NoOptStr],
      [currency |-> "USD", issuer |-> NoOptStr],
      [currency |-> "USD", issuer |-> SomeStr("rI")] }

AccountSpecifiers == {NoOptStr, SomeStr("rA"), SomeStr("bad")}

Requests ==
    { [ledger_hash |-> l.ledger_hash, ledger_index |-> l.ledger_index,
       asset |-> a1, asset2 |-> a2, account |-> acc] :
        l \in LedgerSpecifiers, a1 \in AssetDescriptors,
        a2 \in AssetDescriptors, acc \in AccountSpecifiers }

\* The requests served by the stores of EntryWorlds: for the AMM of the
\* native asset and an issued one and for the AMM of two issued assets, at
\* the default ledger or at ledger 1, with and without an account filter.
EntryAssetPairs ==
    {<<"XRP", "USD">>, <<"USD", "XRP">>, <<"USD", "EUR">>, <<"EUR", "USD">>}

EntryRequests ==
    { [ledger_hash |-> NoOptInt, ledger_index |-> i,
       asset |-> [currency |-> p[1], issuer |-> NoOptStr],
       asset2 |-> [currency |-> p[2], issuer |-> NoOptStr],
       account |-> acc] :
        i \in {NoIndex, StrIndex(validatedString), IntIndex(1)},
        p \in EntryAssetPairs, acc \in {NoOptStr, SomeStr("rA")} }

\* A ledger_index string is well formed when it is "validated" or a
\* non-empty string of digits.
IndexWellFormed(i) ==
    i.t = "string" =>
        \/ i.s = validatedString
        \/ i.s # <<>> /\ DigitPrefixLen(i.s) = Len(i.s)

\* Nothing is checked.
RequestWellFormed_Unchecked(jv) == TRUE

\* Request Resolver (spec 4.1): the checks made on the JSON before the
\* handler's Input is built from it.
RequestWellFormed(jv) ==
    /\ IndexWellFormed(jv.ledger_index)
    /\ jv.account.has => accountFromStringStrict(jv.account.v).has
    /\ jv.asset.issuer.has => accountFromStringStrict(jv.asset.issuer.v).has
    /\ jv.asset2.issuer.has => accountFromStringStrict(jv.asset2.issuer.v).has

\* The lambda getIssue of tag_invoke: starts from the native issue and
\* sets its currency from the descriptor's "currency" member.
getIssue(request) ==
    [xrpIssue EXCEPT !.currency = to_currency(request.currency)]

NoInput ==
    [threw |-> FALSE, ledgerHash |-> NoOptInt, ledgerIndex |-> NoOptU32,
     issue1 |-> xrpIssue, issue2 |-> xrpIssue, accountID |-> NoOptStr]

\* tag_invoke(value_to_tag<AMMInfoHandler::Input>, jv); threw is set when
\* std::stoi throws.  Input::ledgerIndex is an optional uint32_t: the
\* 64-bit number of line 188 and the int of line 190 are converted to it.
ValueToInput(jv) ==
    LET idx == jv.ledger_index
        parsed == stoi(idx.s)
        usesStoi == idx.t = "string" /\ idx.s # validatedString
    IN  [threw |-> usesStoi /\ parsed.threw,
         ledgerHash |-> jv.ledger_hash,
         ledgerIndex |->
            IF idx.t = "int" THEN SomeU32(ToUint32(idx.w, idx.n))
            ELSE IF usesStoi /\ ~parsed.threw THEN SomeU32(ToUint32(0, parsed.v))
            ELSE NoOptU32,
         issue1 |-> getIssue(jv.asset),
         issue2 |-> getIssue(jv.asset2),
         accountID |->
            IF jv.account.has THEN accountFromStringStrict(jv.account.v)
            ELSE NoOptStr]

-----------------------------------------------------------------------------
(* Keys *)

NoIssue == [currency |-> <<>>, account |-> ""]

\* ripple::keylet::account(id)
AccountKeylet(id) == [type |-> "account", id |-> id, i1 |-> NoIssue, i2 |-> NoIssue]

\* ripple::keylet::amm(issue1, issue2): the digest of the two issues taken
\* in ascending order (std::minmax).
AmmKeylet(issue1, issue2) ==
    IF IssueLess(issue2, issue1)
    THEN [type |-> "amm", id |-> "", i1 |-> issue2, i2 |-> issue1]
    ELSE [type |-> "amm", id |-> "", i1 |-> issue1, i2 |-> issue2]

\* ripple::ammLPTCurrency(cur1, cur2): a code made from the two codes
\* taken in ascending order.
ammLPTCurrency(cur1, cur2) ==
    IF CurrencyRank(cur2) < CurrencyRank(cur1)
    THEN <<"LPT">> \o cur2 \o cur1
    ELSE <<"LPT">> \o cur1 \o cur2

\* The key is made from the two issues in the order of the request.
AmmKeyOf_RequestOrder(input) ==
    [type |-> "amm", id |-> "", i1 |-> input.issue1, i2 |-> input.issue2]

\* The key process fetches the AMM object at (AMMInfo.cpp line 64).
AmmKeyOf(input) == AmmKeylet(input.issue1, input.issue2)

-----------------------------------------------------------------------------
(* State *)

VARIABLES
    range,      \* the store's known sequence range (absent: has = FALSE)
    ledgers,    \* the sequences whose header the store holds
    world,      \* the versioned objects of the store
    request,    \* the JSON of the request
    input,      \* AMMInfoHandler::Input built from it
    pc,         \* the position of the request in process
    maxSeq,     \* the value of range->maxSequence read at line 50
    rangeSeen,  \* what fetchLedgerRange returned at line 48
    lgrInfo,    \* the header resolved at lines 49-55
    amm,        \* the decoded AMM entry (line 70)
    holds,      \* asset1Balance, asset2Balance, lptAMMBalance
    response,   \* the Output under construction
    result,     \* what the caller of process receives
    reads,      \* the backend reads issued so far, in order
    run,        \* 1 while the request is processed, 2 when it is processed again
    first,      \* what the first processing of the request gave
    key_,       \* Tokenizer::key_
    token_,     \* Tokenizer::token_
    tokens_,    \* Tokenizer::tokens_
    tkPc,       \* no Tokenizer yet, one constructed, or its constructor threw
    returned    \* what the calls of Tokenizer::next returned, in order

storeVars == <<range, ledgers, world>>
reqVars == <<request, input, pc, maxSeq, rangeSeen, lgrInfo, amm, holds,
             response, result, reads>>
rerunVars == <<run, first>>
tokenizerVars == <<key_, token_, tokens_, tkPc, returned>>
vars == <<range, ledgers, world, request, input, pc, maxSeq, rangeSeen,
          lgrInfo, amm, holds, response, result, reads, run, first,
          key_, token_, tokens_, tkPc, returned>>

NoRange == [has |-> FALSE, minSequence |-> 0, maxSequence |-> 0]
SomeRange(lo, hi) == [has |-> TRUE, minSequence |-> lo, maxSequence |-> hi]

NoKey == [type |-> "", id |-> "", i1 |-> NoIssue, i2 |-> NoIssue]

NoAmount == [issue |-> NoIssue, value |-> 0]

\* A default boost::json::value in the place of an amount.
NoJsonAmount == [native |-> FALSE, value |-> 0, currency |-> <<>>, issuer |-> ""]

NoLedgerInfo == [seq |-> 0, parentCloseTime |-> 0]

\* The optional sfVoteSlots array of an AMM entry.
NoVoteSlots == [present |-> FALSE, entries |-> <<>>]
SomeVoteSlots(entries) == [present |-> TRUE, entries |-> entries]

VoteEntry(account, tradingFee, voteWeight) ==
    [account |-> account, tradingFee |-> tradingFee, voteWeight |-> voteWeight]

\* The optional sfAuctionSlot object of an AMM entry, with its optional
\* sfAccount and sfAuthAccounts fields.
NoAuctionSlot ==
    [present |-> FALSE, hasAccount |-> FALSE, account |-> "", price |-> 0,
     discountedFee |-> 0, expiration |-> 0, hasAuthAccounts |-> FALSE,
     authAccounts |-> <<>>]

NoEntry ==
    [account |-> "", asset |-> NoIssue, asset2 |-> NoIssue, tradingFee |-> 0,
     lpTokenBalance |-> NoAmount, voteSlots |-> NoVoteSlots,
     auctionSlot |-> [NoAuctionSlot EXCEPT !.price = NoAmount]]

NoHolds ==
    [asset1Balance |-> NoAmount, asset2Balance |-> NoAmount,
     lptAMMBalance |-> NoAmount]

\* A default boost::json::value in the place of the auction slot: null.
NullJsonAuction ==
    [null |-> TRUE, time_interval |-> 0, price |-> NoJsonAmount,
     discounted_fee |-> 0, account |-> "", expiration |-> <<>>,
     hasAuthAccounts |-> FALSE, auth_accounts |-> <<>>]

\* A default-constructed Output (line 84).
NoResponse ==
    [ledgerIndex |-> 0, amount1 |-> NoJsonAmount, amount2 |-> NoJsonAmount,
     lpToken |-> NoJsonAmount, tradingFee |-> 0, ammAccount |-> "",
     asset1Frozen |-> NoOptBool, asset2Frozen |-> NoOptBool, ammID |-> NoKey,
     validated |-> TRUE, voteSlots |-> <<>>, auctionSlot |-> NullJsonAuction]

NoRequest ==
    [ledger_hash |-> NoOptInt, ledger_index |-> NoIndex,
     asset |-> [currency |-> "XRP", issuer |-> NoOptStr],
     asset2 |-> [currency |-> "XRP", issuer |-> NoOptStr],
     account |-> NoOptStr]

\* What the caller receives: nothing yet, a Response, an error Status, an
\* exception that left process, or the end of the process itself.
NoResult == [kind |-> "none", status |-> ""]
ErrorResult(status) == [kind |-> "error", status |-> status]
ResponseResult == [kind |-> "response", status |-> ""]
ExceptionResult == [kind |-> "exception", status |-> ""]
CrashResult == [kind |-> "crash", status |-> ""]

\* The outcome of a processing of the request: what the caller received
\* and, for a Response, its content.
NoOutcome == [result |-> NoResult, response |-> NoResponse]

-----------------------------------------------------------------------------
(* The ledger store *)

\* ripple::AUCTION_SLOT_TIME_INTERVALS, the constant of line 113.
AUCTION_SLOT_TIME_INTERVALS == 20

\* ripple::TOTAL_TIME_SLOT_SECS: an auction slot lasts 24 hours.
TOTAL_TIME_SLOT_SECS == 24 * 3600

\* ripple::AUCTION_SLOT_INTERVAL_DURATION
AUCTION_SLOT_INTERVAL_DURATION ==
    TOTAL_TIME_SLOT_SECS \div AUCTION_SLOT_TIME_INTERVALS

\* The close time of the parent of ledger s, in seconds of the ledger's
\* epoch.
CloseTimeOf(s) == 2 * TOTAL_TIME_SLOT_SECS + s

\* BackendInterface::fetchLedgerBySequence
fetchLedgerBySequence(s) ==
    IF s \in ledgers
    THEN [found |-> TRUE, seq |-> s, parentCloseTime |-> CloseTimeOf(s)]
    ELSE [found |-> FALSE, seq |-> 0, parentCloseTime |-> 0]

\* BackendInterface::fetchLedgerBySequence for a sequence given as a
\* uint32_t.
fetchLedgerByUint32(u) ==
    IF \E s \in ledgers : ToUint32(0, s) = u
    THEN fetchLedgerBySequence(CHOOSE s \in ledgers : ToUint32(0, s) = u)
    ELSE fetchLedgerBySequence(0)

\* BackendInterface::fetchLedgerByHash
fetchLedgerByHash(h) ==
    IF \E s \in ledgers : LedgerHashOf(s) = h
    THEN fetchLedgerBySequence(CHOOSE s \in ledgers : LedgerHashOf(s) = h)
    ELSE fetchLedgerBySequence(0)

\* The AMM entry stored under an AMM key, as of sequence seq.
AmmEntryAt(key, seq) ==
    LET lptIssue ==
            [currency |-> ammLPTCurrency(key.i1.currency, key.i2.currency),
             account |-> AmmAccount]
    IN  [account |-> AmmAccount, asset |-> key.i1, asset2 |-> key.i2,
         tradingFee |-> 500 + seq,
         lpTokenBalance |-> [issue |-> lptIssue, value |-> 1000 + seq],
         voteSlots |-> world.voteSlots,
         auctionSlot |->
            [world.auctionSlot EXCEPT
                !.price = IF world.auctionSlot.present
                          THEN [issue |-> lptIssue, value |-> world.auctionSlot.price]
                          ELSE NoAmount]]

\* BackendInterface::fetchLedgerObject(key, sequence, yield): the bytes
\* stored under key as of sequence, if any.  The store holds one AMM for
\* every pair of issues of different currencies, from world.ammFrom on.
fetchLedgerObject(key, sequence) ==
    LET exists ==
            IF key.type = "amm"
            THEN key.i1.currency # key.i2.currency /\ sequence >= world.ammFrom
            ELSE IF key.id = HolderAccount THEN sequence >= world.holderFrom
            ELSE IF key.id = AmmAccount THEN sequence >= world.ownerFrom
            ELSE FALSE
    IN  [found |-> exists,
         wellFormed |-> exists /\ ~(key.type = "amm" /\ world.ammCorrupt),
         entry |-> IF exists /\ key.type = "amm"
                   THEN AmmEntryAt(key, sequence) ELSE NoEntry]

\* rpc::accountHolds(backend, sequence, account, currency, issuer, true,
\* yield): the account's direct balance for the native currency, else the
\* balance of its trust line with the issuer, as of sequence.
accountHolds(sequence, account, currency, issuer) ==
    IF currency = xrpCurrency
    THEN [issue |-> xrpIssue, value |-> 100 * sequence + AccountRank(account)]
    ELSE [issue |-> [currency |-> currency, account |-> issuer],
          value |-> 10 * sequence + AccountRank(account)]

\* ripple::isXRP(STAmount): the amount is of the native asset.
isXRP(amount) == amount.issue.currency = xrpCurrency

\* rpc::isFrozen(backend, sequence, account, currency, issuer, yield): the
\* issuer's global freeze or the trust line's freeze flag, as of sequence.
isFrozen(sequence, account, currency, issuer) ==
    sequence >= world.frozenFrom

-----------------------------------------------------------------------------
(* Initial states *)

InitialRanges ==
    {NoRange, SomeRange(1, 1), SomeRange(1, 2), SomeRange(2, 2)}

EmptyWorld ==
    [holderFrom |-> Never, ammFrom |-> Never, ownerFrom |-> Never,
     ammCorrupt |-> FALSE, frozenFrom |-> Never,
     voteSlots |-> NoVoteSlots, auctionSlot |-> NoAuctionSlot]

\* The votes of two liquidity providers.
TwoVotes ==
    <<VoteEntry(HolderAccount, 600, 70000), VoteEntry(IssuerAccount, 400, 30000)>>

\* An auction slot held by an account, which expires at expiration.
HeldAuctionSlot(expiration, hasAuthAccounts) ==
    [present |-> TRUE, hasAccount |-> TRUE, account |-> HolderAccount,
     price |-> 7, discountedFee |-> 50, expiration |-> expiration,
     hasAuthAccounts |-> hasAuthAccounts,
     authAccounts |-> IF hasAuthAccounts THEN <<IssuerAccount>> ELSE <<>>]

\* An auction slot whose sfAccount field is absent.
UnheldAuctionSlot(expiration) ==
    [HeldAuctionSlot(expiration, FALSE) EXCEPT !.hasAccount = FALSE, !.account = ""]

\* The slot that is half-way through its 24 hours when ledger 1 closes.
MidExpiration == CloseTimeOf(1) + TOTAL_TIME_SLOT_SECS \div 2

Worlds ==
    [holderFrom : {1, 2, Never}, ammFrom : {1, 2, Never}, ownerFrom : {1, Never},
     ammCorrupt : BOOLEAN, frozenFrom : {2, Never},
     voteSlots : {SomeVoteSlots(TwoVotes)},
     auctionSlot : {HeldAuctionSlot(MidExpiration, TRUE)}]

\* No request has arrived and no Tokenizer has been constructed.
Idle ==
    /\ request = NoRequest
    /\ input = NoInput
    /\ pc = "idle"
    /\ maxSeq = 0
    /\ rangeSeen = NoRange
    /\ lgrInfo = NoLedgerInfo
    /\ amm = NoEntry
    /\ holds = NoHolds
    /\ response = NoResponse
    /\ result = NoResult
    /\ reads = <<>>
    /\ run = 1
    /\ first = NoOutcome
    /\ key_ = <<>>
    /\ token_ = <<>>
    /\ tokens_ = <<>>
    /\ tkPc = "none"
    /\ returned = <<>>

Init ==
    /\ range \in InitialRanges
    /\ ledgers = IF range.has THEN 1..range.maxSequence ELSE {}
    /\ world \in IF range.has THEN Worlds ELSE {EmptyWorld}
    /\ Idle

\* The expirations of the auction slots of the store: the parent of
\* ledger 1 closes just before the slot's 24 hours, at their start, around
\* the first boundary between sub-intervals, half-way, at their last
\* second, at their end and after it.
Expirations ==
    { CloseTimeOf(1) + TOTAL_TIME_SLOT_SECS - d :
        d \in {-1, 0, AUCTION_SLOT_INTERVAL_DURATION - 1,
               AUCTION_SLOT_INTERVAL_DURATION, TOTAL_TIME_SLOT_SECS \div 2,
               TOTAL_TIME_SLOT_SECS - 1, TOTAL_TIME_SLOT_SECS,
               TOTAL_TIME_SLOT_SECS + AUCTION_SLOT_INTERVAL_DURATION} }

\* Stores whose AMM entries differ in their optional sub-structures.
EntryWorlds ==
    [holderFrom : {1}, ammFrom : {1}, ownerFrom : {1, Never},
     ammCorrupt : {FALSE}, frozenFrom : {Never},
     voteSlots : {NoVoteSlots, SomeVoteSlots(<<>>), SomeVoteSlots(TwoVotes)},
     auctionSlot :
        {NoAuctionSlot, UnheldAuctionSlot(MidExpiration)}
        \cup {HeldAuctionSlot(e, a) : e \in Expirations, a \in BOOLEAN}]

InitEntry ==
    /\ range = SomeRange(1, 2)
    /\ ledgers = 1..2
    /\ world \in EntryWorlds
    /\ Idle

-----------------------------------------------------------------------------
(* Statuses *)

NotFound == "rpcACT_NOT_FOUND"
LedgerNotFound == "rpcLGR_NOT_FOUND"
MalformedInput == "rpcINVALID_PARAMS"
NotReady == "rpcNOT_READY"
CorruptEntry == "corruptEntry"

-----------------------------------------------------------------------------
(* Helpers of process *)

ReadRec(op, tag, key, account, issue, seq) ==
    [op |-> op, tag |-> tag, key |-> key, account |-> account,
     issue |-> issue, seq |-> seq]

\* The outcomes of evaluating range->maxSequence (line 50).  Dereferencing
\* an empty optional is undefined: the build either reads whatever the
\* optional's storage holds or stops the process.
DerefMaxSequence(r) ==
    IF r.has
    THEN {[crash |-> FALSE, v |-> r.maxSequence]}
    ELSE {[crash |-> TRUE, v |-> 0]}
         \cup {[crash |-> FALSE, v |-> g] : g \in 0..MaxSeq}

\* What the evaluation of line 50 can give in this call of process.  Whether
\* the dereference of an empty optional stops the process is a property of
\* the build: a build that returned from the first call does not stop at
\* line 50 when process is called again.  The value read from the
\* optional's storage is whatever the storage holds at that call.
DerefOutcomes ==
    IF run = 2
    THEN {d \in DerefMaxSequence(range) : ~d.crash}
    ELSE DerefMaxSequence(range)

\* Snapshot Resolver (spec 4.2), called at lines 49-50 with the hash and
\* index of the request and the maximum sequence the handler observed:
\* the header named by the hash, else by the index, else the header of
\* maxSequence; LedgerNotFound when that header is absent or lies outside
\* the known range.
getLedgerInfoFromHashOrSeq(ledgerHash, ledgerIndex, maxSequence) ==
    LET hdr == IF ledgerHash.has THEN fetchLedgerByHash(ledgerHash.v)
               ELSE IF ledgerIndex.has THEN fetchLedgerByUint32(ledgerIndex.v)
               ELSE fetchLedgerBySequence(maxSequence)
        ok == /\ hdr.found
              /\ range.has
              /\ range.minSequence <= hdr.seq
              /\ hdr.seq <= maxSequence
    IN  IF ok
        THEN [isStatus |-> FALSE, status |-> "",
              info |-> [seq |-> hdr.seq, parentCloseTime |-> hdr.parentCloseTime]]
        ELSE [isStatus |-> TRUE, status |-> LedgerNotFound, info |-> NoLedgerInfo]

\* The Status of the resolver is not looked at.
ResolveFailed_Ignored(r) == FALSE

\* Lines 52-53: the resolver returned a Status.
ResolveFailed(r) == r.isStatus

\* The known range is asked again when the header is resolved.
MaxSequenceArg_Requeried == range.maxSequence

\* Line 50: the maximum sequence handed to the resolver is the one of the
\* range fetched at line 48.
MaxSequenceArg == maxSeq

\* The known range is asked again for every read.
SnapshotSeq_Requeried == range.maxSequence

\* The sequence process passes to every read after line 55.
SnapshotSeq == lgrInfo.seq

\* The result of the existence check is dropped.
AccountFilterMissing_Dropped(blob) == FALSE

\* Line 60: the account of the filter has no object.
AccountFilterMissing(blob) == ~blob.found

\* The bytes are decoded without looking whether there are any.
AmmFetchOutcome_Unchecked(ammBlob) ==
    IF ~ammBlob.wellFormed THEN "throws" ELSE "entry"

\* Lines 67-70: no bytes, bytes the SLE constructor throws on, or an entry.
AmmFetchOutcome(ammBlob) ==
    IF ~ammBlob.found THEN "notFound"
    ELSE IF ~ammBlob.wellFormed THEN "throws"
    ELSE "entry"

\* The balance of the second asset is read first.
getAmmPoolHolds_SecondFirst(sequence, ammAccountID, issue1, issue2) ==
    [read1 |-> ReadRec("accountHolds", "pool2", NoKey, ammAccountID, issue2, sequence),
     read2 |-> ReadRec("accountHolds", "pool1", NoKey, ammAccountID, issue1, sequence),
     assetInBalance |->
        accountHolds(sequence, ammAccountID, issue1.currency, issue1.account),
     assetOutBalance |->
        accountHolds(sequence, ammAccountID, issue2.currency, issue2.account)]

\* rpc::getAmmPoolHolds: the two reads it issues and the amounts it returns.
getAmmPoolHolds(sequence, ammAccountID, issue1, issue2) ==
    [read1 |-> ReadRec("accountHolds", "pool1", NoKey, ammAccountID, issue1, sequence),
     read2 |-> ReadRec("accountHolds", "pool2", NoKey, ammAccountID, issue2, sequence),
     assetInBalance |->
        accountHolds(sequence, ammAccountID, issue1.currency, issue1.account),
     assetOutBalance |->
        accountHolds(sequence, ammAccountID, issue2.currency, issue2.account)]

\* The holdings of the AMM account are read in place of the holder's.
getAmmLpHolds_OfAmmAccount(sequence, ammSle, lpAccount) ==
    LET lptCurrency == ammLPTCurrency(ammSle.asset.currency, ammSle.asset2.currency)
        lptIssue == [currency |-> lptCurrency, account |-> ammSle.account]
    IN  [read |-> ReadRec("accountHolds", "lp", NoKey, ammSle.account, lptIssue, sequence),
         amount |-> accountHolds(sequence, ammSle.account, lptCurrency, ammSle.account)]

\* rpc::getAmmLpHolds(backend, sequence, ammSle, lpAccount, yield) and the
\* overload it forwards to.
getAmmLpHolds(sequence, ammSle, lpAccount) ==
    LET lptCurrency == ammLPTCurrency(ammSle.asset.currency, ammSle.asset2.currency)
        lptIssue == [currency |-> lptCurrency, account |-> ammSle.account]
    IN  [read |-> ReadRec("accountHolds", "lp", NoKey, lpAccount, lptIssue, sequence),
         amount |-> accountHolds(sequence, lpAccount, lptCurrency, ammSle.account)]

\* STAmount::getJson through toBoostJson: a native amount is its number of
\* drops, an issued amount names its currency and issuer.
AmountJson(a) ==
    IF isXRP(a)
    THEN [native |-> TRUE, value |-> a.value, currency |-> <<>>, issuer |-> ""]
    ELSE [native |-> FALSE, value |-> a.value, currency |-> a.issue.currency,
          issuer |-> to_string(a.issue.account)]

\* Lines 92-103: one JSON object per stored vote entry, in stored order;
\* nothing is pushed when the entry has no sfVoteSlots.
VoteSlotsJson(entry) ==
    IF entry.voteSlots.present
    THEN [i \in 1..Len(entry.voteSlots.entries) |->
            [account |-> to_string(entry.voteSlots.entries[i].account),
             trading_fee |-> entry.voteSlots.entries[i].tradingFee,
             vote_weight |-> entry.voteSlots.entries[i].voteWeight]]
    ELSE <<>>

\* ripple::ammAuctionTimeSlot(current, auctionSlot): the index of the
\* sub-interval of the slot's 24 hours that current falls in, or nothing
\* when current lies outside them (spec 4.6).
ammAuctionTimeSlot(current, auctionSlot) ==
    LET expiration == auctionSlot.expiration
        start == expiration - TOTAL_TIME_SLOT_SECS
    IN  IF /\ expiration >= TOTAL_TIME_SLOT_SECS
           /\ current >= start
           /\ current - start < TOTAL_TIME_SLOT_SECS
        THEN SomeInt((current - start) \div AUCTION_SLOT_INTERVAL_DURATION)
        ELSE NoOptInt

\* The index of the first sub-interval stands in for an absent time slot.
TimeInterval_First(timeSlot) ==
    IF timeSlot.has THEN timeSlot.v ELSE 0

\* Line 113: timeSlot ? *timeSlot : AUCTION_SLOT_TIME_INTERVALS
TimeInterval(timeSlot) ==
    IF timeSlot.has THEN timeSlot.v ELSE AUCTION_SLOT_TIME_INTERVALS

\* to_iso8601 (lines 29-38): the time point, moved from the ledger's epoch
\* (2000-01-01) to the system clock's, in the fields date::format writes.
to_iso8601(tp) ==
    LET unixSeconds == tp + 946684800
    IN  [days |-> unixSeconds \div 86400,
         hours |-> (unixSeconds % 86400) \div 3600,
         minutes |-> (unixSeconds % 3600) \div 60,
         seconds |-> unixSeconds % 60,
         zone |-> "+0000"]

\* The auction object is built for every entry that has an auction slot.
AuctionSlotWritten_AnySlot(auctionSlot) == auctionSlot.present

\* Lines 105 and 108: the entry has an auction slot, and the slot has an
\* account.
AuctionSlotWritten(auctionSlot) ==
    auctionSlot.present /\ auctionSlot.hasAccount

\* Lines 105-132: the auction object of the Output, null when none is built.
AuctionSlotJson(entry, parentCloseTime) ==
    LET auctionSlot == entry.auctionSlot
        timeSlot == ammAuctionTimeSlot(parentCloseTime, auctionSlot)
    IN  IF AuctionSlotWritten(auctionSlot)
        THEN [null |-> FALSE,
              time_interval |-> TimeInterval(timeSlot),
              price |-> AmountJson(auctionSlot.price),
              discounted_fee |-> auctionSlot.discountedFee,
              account |-> to_string(auctionSlot.account),
              expiration |-> to_iso8601(auctionSlot.expiration),
              hasAuthAccounts |-> auctionSlot.hasAuthAccounts,
              auth_accounts |->
                 IF auctionSlot.hasAuthAccounts
                 THEN [i \in 1..Len(auctionSlot.authAccounts) |->
                         [account |-> to_string(auctionSlot.authAccounts[i])]]
                 ELSE <<>>]
        ELSE NullJsonAuction

\* Lines 84-132: the Output filled from the balances and the entry.
FillResponse(h) ==
    [response EXCEPT
        !.ledgerIndex = lgrInfo.seq,
        !.amount1 = AmountJson(h.asset1Balance),
        !.amount2 = AmountJson(h.asset2Balance),
        !.lpToken = AmountJson(h.lptAMMBalance),
        !.tradingFee = amm.tradingFee,
        !.ammAccount = to_string(amm.account),
        !.voteSlots = VoteSlotsJson(amm),
        !.auctionSlot = AuctionSlotJson(amm, lgrInfo.parentCloseTime)]

\* The flag is written only when it is set.
FrozenMemberPresent_WhenSet(flag) == flag.has /\ flag.v

\* Lines 163 and 166: an optional frozen flag is written when it is engaged.
FrozenMemberPresent(flag) == flag.has

\* tag_invoke(value_from_tag, jv, output), lines 146-174: the members of
\* the "amm" object and of the reply.
AmmMembers(output) ==
    {"lp_token", "amount", "amount2", "account", "trading_fee"}
    \cup (IF ~output.auctionSlot.null THEN {"auction_slot"} ELSE {})
    \cup (IF output.voteSlots # <<>> THEN {"vote_slots"} ELSE {})
    \cup (IF FrozenMemberPresent(output.asset1Frozen) THEN {"asset_frozen"} ELSE {})
    \cup (IF FrozenMemberPresent(output.asset2Frozen) THEN {"asset2_frozen"} ELSE {})

ValueFrom(output) ==
    [amm |->
        [m \in AmmMembers(output) |->
            CASE m = "lp_token" -> output.lpToken
              [] m = "amount" -> output.amount1
              [] m = "amount2" -> output.amount2
              [] m = "account" -> output.ammAccount
              [] m = "trading_fee" -> output.tradingFee
              [] m = "auction_slot" -> output.auctionSlot
              [] m = "vote_slots" -> output.voteSlots
              [] m = "asset_frozen" -> output.asset1Frozen.v
              [] m = "asset2_frozen" -> output.asset2Frozen.v],
     ledger_index |-> output.ledgerIndex,
     validated |-> output.validated]

\* Lines 134 and 138: whether a frozen check is made for the balance.
NeedsFrozenCheck(balance) == ~isXRP(balance)

\* Lines 142-143.
ReturnResponse(resp) ==
    /\ response' = [resp EXCEPT !.ammID = AmmKeyOf(input)]
    /\ result' = ResponseResult
    /\ pc' = "done"

ReturnError(status) ==
    /\ result' = ErrorResult(status)
    /\ pc' = "done"

\* Lines 84-140 up to the first frozen check, once the three balances are
\* known.
AfterBalances(h) ==
    /\ holds' = h
    /\ IF NeedsFrozenCheck(h.asset1Balance)
       THEN response' = FillResponse(h) /\ pc' = "frozen1" /\ result' = result
       ELSE IF NeedsFrozenCheck(h.asset2Balance)
       THEN response' = FillResponse(h) /\ pc' = "frozen2" /\ result' = result
       ELSE ReturnResponse(FillResponse(h))

-----------------------------------------------------------------------------
(* The request, step by step *)

\* The JSON arrives and is checked before the handler sees it (Request
\* Resolver, spec 4.1): a malformed request ends here with MalformedInput.
ValidateFrom(requests) ==
    /\ pc = "idle"
    /\ \E jv \in requests :
        /\ request' = jv
        /\ IF ~RequestWellFormed(jv)
           THEN ReturnError(MalformedInput)
           ELSE pc' = "valueTo" /\ result' = result
    /\ UNCHANGED <<rerunVars, tokenizerVars>>
    /\ UNCHANGED <<storeVars, input, maxSeq, rangeSeen, lgrInfo, amm, holds,
                   response, reads>>

Validate == ValidateFrom(Requests)

ValidateEntry == ValidateFrom(EntryRequests)

\* tag_invoke (lines 176-209) builds the Input from the JSON, which is
\* then handed to process; an exception of std::stoi leaves tag_invoke.
Receive ==
    /\ pc = "valueTo"
    /\ IF ValueToInput(request).threw
       THEN /\ result' = ExceptionResult
            /\ pc' = "done"
            /\ input' = input
       ELSE /\ input' = ValueToInput(request)
            /\ pc' = "fetchLedgerRange"
            /\ result' = result
    /\ UNCHANGED <<rerunVars, tokenizerVars>>
    /\ UNCHANGED <<storeVars, request, maxSeq, rangeSeen, lgrInfo, amm, holds,
                   response, reads>>

\* Line 48, and the evaluation of range->maxSequence at line 50.
FetchLedgerRange ==
    /\ pc = "fetchLedgerRange"
    /\ rangeSeen' = range
    /\ reads' = Append(reads, ReadRec("fetchLedgerRange", "range", NoKey, "", NoIssue, 0))
    /\ \E d \in DerefOutcomes :
        IF d.crash
        THEN /\ result' = CrashResult
             /\ pc' = "done"
             /\ maxSeq' = maxSeq
        ELSE /\ maxSeq' = d.v
             /\ pc' = "resolve"
             /\ result' = result
    /\ UNCHANGED <<rerunVars, tokenizerVars>>
    /\ UNCHANGED <<storeVars, request, input, lgrInfo, amm, holds, response>>

\* Lines 49-55: the header is resolved, or its Status is returned.
ResolveLedger ==
    /\ pc = "resolve"
    /\ LET r == getLedgerInfoFromHashOrSeq(input.ledgerHash, input.ledgerIndex,
                                           MaxSequenceArg)
       IN  /\ reads' = Append(reads, ReadRec("fetchLedger", "header", NoKey, "", NoIssue, 0))
           /\ IF ResolveFailed(r)
              THEN /\ ReturnError(r.status)
                   /\ lgrInfo' = lgrInfo
              ELSE /\ lgrInfo' = r.info
                   /\ pc' = IF input.accountID.has THEN "checkAccount" ELSE "fetchAmm"
                   /\ result' = result
    /\ UNCHANGED <<rerunVars, tokenizerVars>>
    /\ UNCHANGED <<storeVars, request, input, maxSeq, rangeSeen, amm, holds, response>>

\* Lines 57-62: the account of the filter must exist.
CheckAccount ==
    /\ pc = "checkAccount"
    /\ LET keylet == AccountKeylet(input.accountID.v)
           blob == fetchLedgerObject(keylet, SnapshotSeq)
       IN  /\ reads' = Append(reads, ReadRec("fetchLedgerObject", "accountFilter",
                                             keylet, "", NoIssue, SnapshotSeq))
           /\ IF AccountFilterMissing(blob)
              THEN ReturnError(NotFound)
              ELSE pc' = "fetchAmm" /\ result' = result
    /\ UNCHANGED <<rerunVars, tokenizerVars>>
    /\ UNCHANGED <<storeVars, request, input, maxSeq, rangeSeen, lgrInfo, amm,
                   holds, response>>

\* Lines 64-71: the AMM object is fetched and decoded.  The SLE constructor
\* throws on bytes that are no well-formed entry, and process catches
\* nothing.
FetchAmm ==
    /\ pc = "fetchAmm"
    /\ LET ammKeylet == AmmKeyOf(input)
           ammBlob == fetchLedgerObject(ammKeylet, SnapshotSeq)
       IN  /\ reads' = Append(reads, ReadRec("fetchLedgerObject", "amm",
                                             ammKeylet, "", NoIssue, SnapshotSeq))
           /\ IF AmmFetchOutcome(ammBlob) = "notFound"
              THEN /\ ReturnError(NotFound)
                   /\ amm' = amm
              ELSE IF AmmFetchOutcome(ammBlob) = "throws"
              THEN /\ result' = ExceptionResult
                   /\ pc' = "done"
                   /\ amm' = amm
              ELSE /\ amm' = ammBlob.entry
                   /\ pc' = "fetchOwner"
                   /\ result' = result
    /\ UNCHANGED <<rerunVars, tokenizerVars>>
    /\ UNCHANGED <<storeVars, request, input, maxSeq, rangeSeen, lgrInfo, holds,
                   response>>

\* Lines 72-74: the account that owns the AMM must exist.
FetchOwner ==
    /\ pc = "fetchOwner"
    /\ LET keylet == AccountKeylet(amm.account)
           accBlob == fetchLedgerObject(keylet, SnapshotSeq)
       IN  /\ reads' = Append(reads, ReadRec("fetchLedgerObject", "owner",
                                             keylet, "", NoIssue, SnapshotSeq))
           /\ IF ~accBlob.found
              THEN ReturnError(NotFound)
              ELSE pc' = "poolHolds1" /\ result' = result
    /\ UNCHANGED <<rerunVars, tokenizerVars>>
    /\ UNCHANGED <<storeVars, request, input, maxSeq, rangeSeen, lgrInfo, amm,
                   holds, response>>

\* Lines 77-78, first read of getAmmPoolHolds.
PoolHolds1 ==
    /\ pc = "poolHolds1"
    /\ LET r == getAmmPoolHolds(SnapshotSeq, amm.account, input.issue1, input.issue2)
       IN  /\ reads' = Append(reads, r.read1)
           /\ holds' = [holds EXCEPT !.asset1Balance = r.assetInBalance]
    /\ pc' = "poolHolds2"
    /\ UNCHANGED <<rerunVars, tokenizerVars>>
    /\ UNCHANGED <<storeVars, request, input, maxSeq, rangeSeen, lgrInfo, amm,
                   response, result>>

\* Lines 77-82, second read of getAmmPoolHolds; without an account filter
\* the LP balance is the entry's own field and the Output is filled.
PoolHolds2 ==
    /\ pc = "poolHolds2"
    /\ LET r == getAmmPoolHolds(SnapshotSeq, amm.account, input.issue1, input.issue2)
           h == [holds EXCEPT !.asset2Balance = r.assetOutBalance]
       IN  /\ reads' = Append(reads, r.read2)
           /\ IF input.accountID.has
              THEN /\ holds' = h
                   /\ pc' = "lpHolds"
                   /\ UNCHANGED <<response, result>>
              ELSE AfterBalances([h EXCEPT !.lptAMMBalance = amm.lpTokenBalance])
    /\ UNCHANGED <<rerunVars, tokenizerVars>>
    /\ UNCHANGED <<storeVars, request, input, maxSeq, rangeSeen, lgrInfo, amm>>

\* Lines 80-81: the LP tokens held by the account of the filter.
LpHolds ==
    /\ pc = "lpHolds"
    /\ LET r == getAmmLpHolds(SnapshotSeq, amm, input.accountID.v)
       IN  /\ reads' = Append(reads, r.read)
           /\ AfterBalances([holds EXCEPT !.lptAMMBalance = r.amount])
    /\ UNCHANGED <<rerunVars, tokenizerVars>>
    /\ UNCHANGED <<storeVars, request, input, maxSeq, rangeSeen, lgrInfo, amm>>

\* Lines 134-136.
Frozen1 ==
    /\ pc = "frozen1"
    /\ LET resp == [response EXCEPT !.asset1Frozen =
                       SomeBool(isFrozen(SnapshotSeq, amm.account,
                                         input.issue1.currency, input.issue1.account))]
       IN  /\ reads' = Append(reads, ReadRec("isFrozen", "frozen1", NoKey,
                                             amm.account, input.issue1, SnapshotSeq))
           /\ IF NeedsFrozenCheck(holds.asset2Balance)
              THEN response' = resp /\ pc' = "frozen2" /\ result' = result
              ELSE ReturnResponse(resp)
    /\ UNCHANGED <<rerunVars, tokenizerVars>>
    /\ UNCHANGED <<storeVars, request, input, maxSeq, rangeSeen, lgrInfo, amm, holds>>

\* Lines 138-143.
Frozen2 ==
    /\ pc = "frozen2"
    /\ reads' = Append(reads, ReadRec("isFrozen", "frozen2", NoKey,
                                      amm.account, input.issue2, SnapshotSeq))
    /\ ReturnResponse([response EXCEPT !.asset2Frozen =
                          SomeBool(isFrozen(SnapshotSeq, amm.account,
                                            input.issue2.currency, input.issue2.account))])
    /\ UNCHANGED <<rerunVars, tokenizerVars>>
    /\ UNCHANGED <<storeVars, request, input, maxSeq, rangeSeen, lgrInfo, amm, holds>>

\* The store learns of one more ledger: its known range grows by one.
Advance ==
    /\ range.has
    /\ range.maxSequence < MaxSeq
    /\ pc # "done"
    /\ range' = [range EXCEPT !.maxSequence = range.maxSequence + 1]
    /\ ledgers' = ledgers \cup {range.maxSequence + 1}
    /\ UNCHANGED <<world, reqVars, rerunVars, tokenizerVars>>

Next ==
    \/ Validate
    \/ Receive
    \/ FetchLedgerRange
    \/ ResolveLedger
    \/ CheckAccount
    \/ FetchAmm
    \/ FetchOwner
    \/ PoolHolds1
    \/ PoolHolds2
    \/ LpHolds
    \/ Frozen1
    \/ Frozen2
    \/ Advance

Spec == Init /\ [][Next]_vars

\* The requests served by a store that has a known range.
InitReady == Init /\ range.has

SpecReady == InitReady /\ [][Next]_vars

-----------------------------------------------------------------------------
(* util::detail::Tokenizer<KeyType, Separator> *)

\* The longest key a Tokenizer is constructed from.
MaxKeyLen == 4

\* The number of calls of next made after the queue has run empty.
MaxSpareCalls == 2

\* The template argument Separator, and the characters of the keys.
Separator == "."
KeyChars == {Separator, "a", "b"}

RECURSIVE SeqsOfLen(_)
SeqsOfLen(n) ==
    IF n = 0 THEN {<<>>}
    ELSE {Append(s, c) : s \in SeqsOfLen(n - 1), c \in KeyChars}

Keys == UNION {SeqsOfLen(n) : n \in 0..MaxKeyLen}

\* std::optional<KeyType>
Nullopt == [has |-> FALSE, v |-> <<>>]
SomeToken(t) == [has |-> TRUE, v |-> t]

\* The token is pushed whether or not it is empty.
saveToken_Unchecked(token, tokens) ==
    [threw |-> FALSE, token_ |-> <<>>, tokens_ |-> Append(tokens, token)]

\* The token is pushed and not cleared afterwards.
saveToken_NotCleared(token, tokens) ==
    IF token = <<>>
    THEN [threw |-> TRUE, token_ |-> token, tokens_ |-> tokens]
    ELSE [threw |-> FALSE, token_ |-> token, tokens_ |-> Append(tokens, token)]

\* Tokenizer::saveToken (lines 88-95): throws on an empty token_, else
\* pushes it onto tokens_ and clears it.
saveToken(token, tokens) ==
    IF token = <<>>
    THEN [threw |-> TRUE, token_ |-> token, tokens_ |-> tokens]
    ELSE [threw |-> FALSE, token_ |-> <<>>, tokens_ |-> Append(tokens, token)]

\* The loop of the constructor (lines 66-72) from character i on, and the
\* saveToken that follows it (line 74).
RECURSIVE ScanKey(_, _, _, _)
ScanKey(key, i, token, tokens) ==
    IF i > Len(key) THEN saveToken(token, tokens)
    ELSE IF key[i] = Separator
    THEN LET saved == saveToken(token, tokens)
         IN  IF saved.threw THEN saved
             ELSE ScanKey(key, i + 1, saved.token_, saved.tokens_)
    ELSE ScanKey(key, i + 1, Append(token, key[i]), tokens)

\* Tokenizer::Tokenizer(KeyType key), lines 61-75.
Tokenizer(key) ==
    IF key = <<>>
    THEN [threw |-> TRUE, token_ |-> <<>>, tokens_ |-> <<>>]
    ELSE ScanKey(key, 1, <<>>, <<>>)

\* A Tokenizer is constructed from a key.  When the constructor throws no
\* object exists: key_ then only records the argument.
Construct ==
    /\ tkPc = "none"
    /\ \E key \in Keys :
        /\ key_' = key
        /\ IF Tokenizer(key).threw
           THEN /\ tkPc' = "threw"
                /\ UNCHANGED <<token_, tokens_>>
           ELSE /\ tkPc' = "built"
                /\ token_' = Tokenizer(key).token_
                /\ tokens_' = Tokenizer(key).tokens_
    /\ UNCHANGED <<storeVars, reqVars, rerunVars, returned>>

\* Tokenizer::next (lines 77-85).
CallNext ==
    /\ tkPc = "built"
    /\ \/ tokens_ # <<>>
       \/ Cardinality({i \in 1..Len(returned) : ~returned[i].has}) < MaxSpareCalls
    /\ IF tokens_ = <<>>
       THEN /\ returned' = Append(returned, Nullopt)
            /\ UNCHANGED tokens_
       ELSE /\ returned' = Append(returned, SomeToken(Head(tokens_)))
            /\ tokens_' = Tail(tokens_)
    /\ UNCHANGED <<storeVars, reqVars, rerunVars, key_, token_, tkPc>>

InitTokenizer ==
    /\ range = NoRange
    /\ ledgers = {}
    /\ world = EmptyWorld
    /\ Idle

NextTokenizer ==
    \/ Construct
    \/ CallNext

SpecTokenizer == InitTokenizer /\ [][NextTokenizer]_vars

-----------------------------------------------------------------------------
(* Processing a request twice *)

\* The second call of a process that took its Input by reference and moved
\* the account filter out of it.
Rerun_InputConsumed ==
    /\ pc = "done"
    /\ run = 1
    /\ reads # <<>>
    /\ result # CrashResult
    /\ first' = [result |-> result, response |-> response]
    /\ run' = 2
    /\ pc' = "fetchLedgerRange"
    /\ input' = [input EXCEPT !.accountID = NoOptStr]
    /\ maxSeq' = 0
    /\ rangeSeen' = NoRange
    /\ lgrInfo' = NoLedgerInfo
    /\ amm' = NoEntry
    /\ holds' = NoHolds
    /\ response' = NoResponse
    /\ result' = NoResult
    /\ reads' = <<>>
    /\ UNCHANGED <<storeVars, request, tokenizerVars>>

\* The request that process has answered is handed to process again, as
\* it is: the Input and the store are the same, the locals are fresh.
\* process takes its Input by value and is a const member (line 44): it
\* keeps nothing between calls.  A process that was stopped at line 50 is not there to
\* be called again; an exception leaving process goes to the caller, which
\* can call again.
Rerun ==
    /\ pc = "done"
    /\ run = 1
    /\ reads # <<>>
    /\ result # CrashResult
    /\ first' = [result |-> result, response |-> response]
    /\ run' = 2
    /\ pc' = "fetchLedgerRange"
    /\ maxSeq' = 0
    /\ rangeSeen' = NoRange
    /\ lgrInfo' = NoLedgerInfo
    /\ amm' = NoEntry
    /\ holds' = NoHolds
    /\ response' = NoResponse
    /\ result' = NoResult
    /\ reads' = <<>>
    /\ UNCHANGED <<storeVars, request, input, tokenizerVars>>

\* Requests processed twice against a store that does not change.
NextTwice ==
    \/ Validate
    \/ Receive
    \/ FetchLedgerRange
    \/ ResolveLedger
    \/ CheckAccount
    \/ FetchAmm
    \/ FetchOwner
    \/ PoolHolds1
    \/ PoolHolds2
    \/ LpHolds
    \/ Frozen1
    \/ Frozen2
    \/ Rerun

SpecTwice == Init /\ [][NextTwice]_vars

\* The requests served by the stores of EntryWorlds.
NextEntry ==
    \/ ValidateEntry
    \/ Receive
    \/ FetchLedgerRange
    \/ ResolveLedger
    \/ CheckAccount
    \/ FetchAmm
    \/ FetchOwner
    \/ PoolHolds1
    \/ PoolHolds2
    \/ LpHolds
    \/ Frozen1
    \/ Frozen2
    \/ Advance

SpecEntry == InitEntry /\ [][NextEntry]_vars

-----------------------------------------------------------------------------
(* Vocabulary of the properties *)

ObjectReadOps == {"fetchLedgerObject", "accountHolds", "isFrozen"}

ReadsTagged(tag) == {i \in 1..Len(reads) : reads[i].tag = tag}

ObjectReads == {i \in 1..Len(reads) : reads[i].op \in ObjectReadOps}

\* process has resolved a header for this request.
Resolved == \E i \in 1..Len(reads) : reads[i].tag = "header" /\ lgrInfo.seq # 0

\* The request was handed to process.
Processed == reads # <<>>

\* The ledger_index of the request is a number, or a string of digits.
DigitString(s) == s # <<>> /\ \A k \in 1..Len(s) : s[k] \in Digits

NumericIndex ==
    [has |-> \/ request.ledger_index.t = "int"
             \/ /\ request.ledger_index.t = "string"
                /\ DigitString(request.ledger_index.s)]

\* The number that the ledger_index of the request denotes is smaller
\* than x, is larger than x, is x (for x of the size of a sequence of
\* the store).
IndexBelow(x) ==
    LET idx == request.ledger_index
        m == NegDigitsValue(idx.s, 0)
    IN  IF idx.t = "int" THEN idx.w < 0 \/ (idx.w = 0 /\ idx.n < x)
        ELSE ~m.overflow /\ m.v > -x

IndexAbove(x) ==
    LET idx == request.ledger_index
        m == NegDigitsValue(idx.s, 0)
    IN  IF idx.t = "int" THEN idx.w > 0 \/ (idx.w = 0 /\ idx.n > x)
        ELSE m.overflow \/ m.v < -x

IndexIs(x) == ~IndexBelow(x) /\ ~IndexAbove(x)

MalformedIndex ==
    /\ request.ledger_index.t = "string"
    /\ request.ledger_index.s # validatedString
    /\ ~NumericIndex.has

WellFormedAddresses == {"rA", "rI", "rAMM"}

MalformedAccount ==
    request.account.has /\ request.account.v \notin WellFormedAddresses

\* The asset identity a descriptor of the request stands for.
IdentityOf(descriptor) ==
    [currency |-> IF descriptor.currency = "XRP" THEN xrpCurrency
                  ELSE <<descriptor.currency>>,
     account |-> IF descriptor.issuer.has
                 THEN (CHOOSE e \in AddressBook : e[1] = descriptor.issuer.v)[2]
                 ELSE xrpAccount]

\* The request with asset and asset2 exchanged.
Swapped(jv) == [jv EXCEPT !.asset = jv.asset2, !.asset2 = jv.asset]

-----------------------------------------------------------------------------
(* C1 *)

\* C1: every ledger-object read of a request (account filter, AMM object,
\* owner account, both pool holdings, LP holdings, frozen checks) carries
\* the sequence of the header resolved at the start of the request, and
\* the ledger_index of the response is that sequence, whatever the known
\* range has become in the meantime.
C1_ReadsPinnedToSnapshot ==
    /\ \A i \in ObjectReads : Resolved /\ reads[i].seq = lgrInfo.seq
    /\ result.kind = "response" =>
          /\ response.ledgerIndex = lgrInfo.seq
          /\ ValueFrom(response).ledger_index = lgrInfo.seq

\* A response built from seven object reads at a sequence that is no
\* longer the maximum of the known range, which grew during the request.
C1_Witness ==
    /\ result.kind = "response"
    /\ Cardinality(ObjectReads) = 7
    /\ rangeSeen.has
    /\ range.maxSequence > rangeSeen.maxSequence
    /\ lgrInfo.seq < rangeSeen.maxSequence

-----------------------------------------------------------------------------
(* C2 *)

\* C2: when the request names an account that has no object at the
\* resolved sequence, the AMM object is never fetched, no later read is
\* issued, and the request ends with the not-found error.
C2_MissingAccountStopsRequest ==
    ( /\ Resolved
      /\ input.accountID.has
      /\ ~fetchLedgerObject(AccountKeylet(input.accountID.v), lgrInfo.seq).found )
    => /\ \A i \in ObjectReads : reads[i].tag = "accountFilter"
       /\ pc = "done" => result = ErrorResult(NotFound)

\* The existence check was issued for a missing account while the AMM
\* object exists at that sequence, and the request ended.
C2_Witness ==
    /\ pc = "done"
    /\ Resolved
    /\ input.accountID.has
    /\ ReadsTagged("accountFilter") # {}
    /\ ~fetchLedgerObject(AccountKeylet(input.accountID.v), lgrInfo.seq).found
    /\ fetchLedgerObject(AmmKeyOf(input), lgrInfo.seq).found
    /\ result = ErrorResult(NotFound)

-----------------------------------------------------------------------------
(* C3 *)

\* C3: when no AMM object exists at the resolved sequence for the asset
\* pair, the request ends with the NotFound error and without a Response,
\* with or without an account filter, whether or not the account exists.
C3_MissingAmmIsNotFound ==
    ( /\ pc = "done"
      /\ Resolved
      /\ ~fetchLedgerObject(AmmKeyOf(input), lgrInfo.seq).found )
    => result = ErrorResult(NotFound)

\* The AMM fetch came back empty after the account of the filter was found.
C3_Witness ==
    /\ pc = "done"
    /\ Resolved
    /\ input.accountID.has
    /\ fetchLedgerObject(AccountKeylet(input.accountID.v), lgrInfo.seq).found
    /\ ReadsTagged("amm") # {}
    /\ ~fetchLedgerObject(AmmKeyOf(input), lgrInfo.seq).found
    /\ result = ErrorResult(NotFound)

-----------------------------------------------------------------------------
(* C4 *)

\* C4: when fetchLedgerRange returns no range, the request ends with the
\* NotReady error as its result, no field of the absent range is read
\* and no header or object read is issued.
C4_NoRangeIsNotReady ==
    ( /\ pc = "done"
      /\ Processed
      /\ ~rangeSeen.has )
    => /\ result = ErrorResult(NotReady)
       /\ Len(reads) = 1

-----------------------------------------------------------------------------
(* C5 *)

\* C5: a request that names its ledger by a numeric ledger_index below
\* minSequence or above maxSequence of the known range ends with
\* LedgerNotFound and issues no ledger-object read.
C5_IndexOutsideRange ==
    ( /\ Processed
      /\ rangeSeen.has
      /\ ~request.ledger_hash.has
      /\ NumericIndex.has
      /\ \/ IndexBelow(rangeSeen.minSequence)
         \/ IndexAbove(rangeSeen.maxSequence) )
    => /\ ObjectReads = {}
       /\ pc = "done" => result = ErrorResult(LedgerNotFound)

\* An index below minSequence whose header the store still holds was
\* turned down.
C5_Witness ==
    /\ pc = "done"
    /\ rangeSeen.has
    /\ ~request.ledger_hash.has
    /\ NumericIndex.has
    /\ IndexBelow(rangeSeen.minSequence)
    /\ \E s \in ledgers : IndexIs(s)
    /\ ReadsTagged("header") # {}
    /\ result = ErrorResult(LedgerNotFound)

-----------------------------------------------------------------------------
(* C6 *)

\* C6: a request whose ledger_index string is neither "validated" nor a
\* number, or whose account is no well-formed address, ends with the
\* MalformedInput error before any backend access: no Input is built from
\* it, nothing is read, and no exception takes the place of the error.
C6_MalformedRejected ==
    ( /\ pc # "idle"
      /\ MalformedIndex \/ MalformedAccount )
    => /\ result = ErrorResult(MalformedInput)
       /\ reads = <<>>
       /\ input = NoInput

\* A request with a malformed account and a well-formed index was
\* turned down.
C6_Witness ==
    /\ pc = "done"
    /\ MalformedAccount
    /\ ~MalformedIndex
    /\ result = ErrorResult(MalformedInput)

-----------------------------------------------------------------------------
(* C7 *)

\* C7: the asset identities of the Input are the (currency, issuer) pairs
\* of the descriptors of the request: a supplied issuer is carried into
\* the identity and the native sentinel is used only when none is
\* supplied, so that the AMM key is the key of those identities.
C7_IssuerCarried ==
    Processed =>
       /\ input.issue1 = IdentityOf(request.asset)
       /\ input.issue2 = IdentityOf(request.asset2)
       /\ \A i \in ReadsTagged("amm") :
             reads[i].key = AmmKeylet(IdentityOf(request.asset), IdentityOf(request.asset2))

-----------------------------------------------------------------------------
(* C8 *)

\* C8: in a successful response asset_frozen is a member of the output
\* exactly when asset is not the native asset, and asset2_frozen exactly
\* when asset2 is not; the frozen check is made exactly for the
\* non-native assets, and a member that is present holds the boolean the
\* check returned, also when it is false.
C8_FrozenMembers ==
    result.kind = "response" =>
       LET out == ValueFrom(response).amm
           native1 == request.asset.currency = "XRP"
           native2 == request.asset2.currency = "XRP"
       IN  /\ ("asset_frozen" \in DOMAIN out) <=> ~native1
           /\ ("asset2_frozen" \in DOMAIN out) <=> ~native2
           /\ (ReadsTagged("frozen1") # {}) <=> ~native1
           /\ (ReadsTagged("frozen2") # {}) <=> ~native2
           /\ ~native1 => out["asset_frozen"] = (lgrInfo.seq >= world.frozenFrom)
           /\ ~native2 => out["asset2_frozen"] = (lgrInfo.seq >= world.frozenFrom)

\* A response for a non-native asset that is not frozen and a native
\* asset2: asset_frozen is present and false, asset2_frozen is absent.
C8_Witness ==
    /\ result.kind = "response"
    /\ request.asset.currency = "USD"
    /\ request.asset2.currency = "XRP"
    /\ "asset_frozen" \in DOMAIN ValueFrom(response).amm
    /\ ValueFrom(response).amm["asset_frozen"] = FALSE
    /\ "asset2_frozen" \notin DOMAIN ValueFrom(response).amm

-----------------------------------------------------------------------------
(* C9 *)

\* What the request with asset and asset2 exchanged makes of the store.
SwappedInput == ValueToInput(Swapped(request))
SwappedAmmBlob == fetchLedgerObject(AmmKeyOf(SwappedInput), lgrInfo.seq)

\* C9: the request and the request with asset and asset2 exchanged fetch
\* the AMM object under the same key and report the same amm id, and with
\* an account filter both read the holder's balance of the same LP-token
\* currency issued by the same AMM account; the LP-token currency does
\* not depend on the order of the two currencies it is made from.
C9_SwapInvariant ==
    /\ \A i \in ReadsTagged("amm") : reads[i].key = AmmKeyOf(SwappedInput)
    /\ result.kind = "response" => response.ammID = AmmKeyOf(SwappedInput)
    /\ \A i \in ReadsTagged("lp") :
          /\ SwappedAmmBlob.found
          /\ reads[i] = getAmmLpHolds(lgrInfo.seq, SwappedAmmBlob.entry,
                                      SwappedInput.accountID.v).read
          /\ reads[i].issue.currency =
                ammLPTCurrency(amm.asset2.currency, amm.asset.currency)

\* A response to a request with an account filter whose two assets
\* differ, asset being the larger of the two.
C9_Witness ==
    /\ result.kind = "response"
    /\ ReadsTagged("lp") # {}
    /\ IssueLess(input.issue2, input.issue1)

-----------------------------------------------------------------------------
(* C10 *)

\* The members every Response carries are populated.
CompleteResponse ==
    /\ response.ledgerIndex = lgrInfo.seq
    /\ response.amount1 = AmountJson(holds.asset1Balance)
    /\ response.amount2 = AmountJson(holds.asset2Balance)
    /\ response.lpToken = AmountJson(holds.lptAMMBalance)
    /\ response.ammAccount = to_string(amm.account)
    /\ response.tradingFee = amm.tradingFee
    /\ {"lp_token", "amount", "amount2", "account", "trading_fee"}
          \subseteq DOMAIN ValueFrom(response).amm

\* C10: a request that has ended has given its caller either a complete
\* Response or one error status, and nothing else; the error is that of
\* the step that failed and no read was issued after that step.
C10_ResponseOrError ==
    pc = "done" =>
       /\ result.kind \in {"response", "error"}
       /\ result.kind = "response" => CompleteResponse
       /\ result.kind = "error" =>
             \/ reads = <<>> /\ result.status = MalformedInput
             \/ /\ reads # <<>>
                /\ reads[Len(reads)].tag \in {"header", "accountFilter", "amm", "owner"}
                /\ result.status =
                      IF reads[Len(reads)].tag = "header" THEN LedgerNotFound
                      ELSE NotFound

-----------------------------------------------------------------------------
(* The optional sub-structures of the reply *)

\* The auction slot of the serialized reply, when it has one.
HasAuctionMember == "auction_slot" \in DOMAIN ValueFrom(response).amm
AuctionMember == ValueFrom(response).amm["auction_slot"]

\* Seconds from the start of the stored slot's 24 hours to the close of
\* the snapshot's parent.
SinceSlotStart ==
    lgrInfo.parentCloseTime - (amm.auctionSlot.expiration - TOTAL_TIME_SLOT_SECS)

InsideSlot == 0 <= SinceSlotStart /\ SinceSlotStart < TOTAL_TIME_SLOT_SECS

\* C11: the emitted time_interval is the number of whole sub-intervals
\* between the slot's start and the close of the snapshot's parent while
\* that close lies inside the slot's 24 hours (10 half-way through), and
\* the constant 20 when it lies before the start or at or after the end:
\* it is always in 0..20 and is 20 exactly outside the window.
C11_TimeInterval ==
    (result = ResponseResult /\ HasAuctionMember) =>
        LET t == AuctionMember.time_interval
        IN  /\ t \in 0..20
            /\ t = 20 <=> ~InsideSlot
            /\ InsideSlot =>
                /\ t * AUCTION_SLOT_INTERVAL_DURATION <= SinceSlotStart
                /\ SinceSlotStart < (t + 1) * AUCTION_SLOT_INTERVAL_DURATION
            /\ 2 * SinceSlotStart = TOTAL_TIME_SLOT_SECS => t = 10

\* A reply whose slot is exactly half-way through carries interval 10.
C11_Witness ==
    /\ result = ResponseResult
    /\ HasAuctionMember
    /\ 2 * SinceSlotStart = TOTAL_TIME_SLOT_SECS
    /\ AuctionMember.time_interval = 10

-----------------------------------------------------------------------------
(* The LP token balance *)

\* The issue of the LP token of the decoded entry.
LptIssueOf(entry) ==
    [currency |-> ammLPTCurrency(entry.asset.currency, entry.asset2.currency),
     account |-> entry.account]

\* The number of reads issued so far that carry the tag.
CountTagged(tag) == Cardinality(ReadsTagged(tag))

\* C12: without an account filter lp_token is the lpTokenBalance of the
\* entry and no LP-holdings read is issued; with a filter exactly one
\* holdings read is issued, for the filter's account and the LP currency
\* issued by the AMM account, and lp_token is what that account holds, not
\* the entry's lpTokenBalance.
C12_LpTokenSource ==
    result = ResponseResult =>
        IF input.accountID.has
        THEN /\ CountTagged("lp") = 1
             /\ \A i \in ReadsTagged("lp") :
                    /\ reads[i].op = "accountHolds"
                    /\ reads[i].account = input.accountID.v
                    /\ reads[i].account # amm.account
                    /\ reads[i].issue = LptIssueOf(amm)
                    /\ reads[i].seq = lgrInfo.seq
             /\ ValueFrom(response).amm["lp_token"] =
                    AmountJson(accountHolds(lgrInfo.seq, input.accountID.v,
                                            LptIssueOf(amm).currency, amm.account))
             /\ ValueFrom(response).amm["lp_token"] # AmountJson(amm.lpTokenBalance)
        ELSE /\ CountTagged("lp") = 0
             /\ ValueFrom(response).amm["lp_token"] = AmountJson(amm.lpTokenBalance)

\* A reply to a request with an account filter, and so after the read.
C12_Witness ==
    /\ result = ResponseResult
    /\ input.accountID.has
    /\ CountTagged("lp") = 1
    /\ ValueFrom(response).amm["lp_token"].value # amm.lpTokenBalance.value

\* C13, as claimed: auction_slot is a member of the serialized reply
\* exactly when the decoded entry has an auction slot, and then carries the
\* slot's price, discounted fee, account and expiration.
C13_AuctionSlotIffPresent ==
    result = ResponseResult =>
        /\ HasAuctionMember <=> amm.auctionSlot.present
        /\ amm.auctionSlot.present =>
            /\ AuctionMember.price = AmountJson(amm.auctionSlot.price)
            /\ AuctionMember.discounted_fee = amm.auctionSlot.discountedFee
            /\ AuctionMember.account = to_string(amm.auctionSlot.account)
            /\ AuctionMember.expiration = to_iso8601(amm.auctionSlot.expiration)

\* C13, as the code has it: auction_slot is a member of the serialized
\* reply exactly when the decoded entry has an auction slot and that slot
\* has an account, and then carries the slot's price, discounted fee,
\* account and expiration.
C13_AuctionSlotIffHeld ==
    result = ResponseResult =>
        /\ HasAuctionMember <=>
            (amm.auctionSlot.present /\ amm.auctionSlot.hasAccount)
        /\ HasAuctionMember =>
            /\ AuctionMember.price = AmountJson(amm.auctionSlot.price)
            /\ AuctionMember.discounted_fee = amm.auctionSlot.discountedFee
            /\ AuctionMember.account = to_string(amm.auctionSlot.account)
            /\ AuctionMember.expiration = to_iso8601(amm.auctionSlot.expiration)

\* A reply for an entry whose auction slot has no account: no auction_slot.
C13_Witness ==
    /\ result = ResponseResult
    /\ amm.auctionSlot.present
    /\ ~amm.auctionSlot.hasAccount
    /\ ~HasAuctionMember

\* A reply that carries the auction slot of its entry.
C13_WitnessHeld ==
    /\ result = ResponseResult
    /\ HasAuctionMember
    /\ AuctionMember.account = to_string(HolderAccount)

\* The vote list of the serialized reply, when it has one.
HasVoteMember == "vote_slots" \in DOMAIN ValueFrom(response).amm
VoteMember == ValueFrom(response).amm["vote_slots"]

\* C14: vote_slots is a member of the serialized reply exactly when the
\* decoded entry has the vote-slots field, whether or not the field holds
\* entries, and the member has one element per stored vote entry, in the
\* stored order.
C14_VoteSlotsIffPresent ==
    result = ResponseResult =>
        /\ HasVoteMember <=> amm.voteSlots.present
        /\ HasVoteMember =>
            /\ Len(VoteMember) = Len(amm.voteSlots.entries)
            /\ \A i \in 1..Len(VoteMember) :
                /\ VoteMember[i].account = to_string(amm.voteSlots.entries[i].account)
                /\ VoteMember[i].trading_fee = amm.voteSlots.entries[i].tradingFee
                /\ VoteMember[i].vote_weight = amm.voteSlots.entries[i].voteWeight

-----------------------------------------------------------------------------
(* Malformed entries *)

\* The bytes fetched for the AMM at the snapshot were present and were no
\* well-formed entry.
AmmBytesMalformed ==
    /\ ReadsTagged("amm") # {}
    /\ fetchLedgerObject(AmmKeyOf(input), lgrInfo.seq).found
    /\ ~fetchLedgerObject(AmmKeyOf(input), lgrInfo.seq).wellFormed

\* C16: when the fetched AMM bytes are no well-formed entry the request
\* ends with the error status CorruptEntry, handed to the caller as a
\* result and not as an exception, and nothing is read after the AMM
\* fetch: no owner account, no balance, no frozen flag.
C16_MalformedIsCorruptEntry ==
    (pc = "done" /\ AmmBytesMalformed) =>
        /\ result = ErrorResult(CorruptEntry)
        /\ reads[Len(reads)].tag = "amm"

-----------------------------------------------------------------------------
(* The default snapshot *)

\* The request names no ledger: no ledger_hash, and a ledger_index that
\* is absent or "validated".
NoLedgerNamed ==
    /\ ~request.ledger_hash.has
    /\ request.ledger_index \in {NoIndex, StrIndex(validatedString)}

\* C17: for a request that names no ledger the snapshot sequence is the
\* maxSequence that the one range query at the start of the request
\* observed; when the store's maximum grows afterwards the request keeps
\* reading at that sequence and does not ask for the range again.
C17_DefaultSnapshotIsObservedMax ==
    (Resolved /\ NoLedgerNamed) =>
        /\ lgrInfo.seq = rangeSeen.maxSequence
        /\ CountTagged("range") = 1
        /\ \A i \in ObjectReads : reads[i].seq = rangeSeen.maxSequence

\* A reply computed at the observed maximum after the store has grown.
C17_Witness ==
    /\ result = ResponseResult
    /\ NoLedgerNamed
    /\ range.maxSequence > rangeSeen.maxSequence
    /\ response.ledgerIndex = rangeSeen.maxSequence

-----------------------------------------------------------------------------
(* The order of the reads *)

\* The tags of the reads issued so far, in order.
TagsOfReads == [i \in 1..Len(reads) |-> reads[i].tag]

\* The reads of a request that ends in a Response, in the order of spec 5.
ExpectedTags ==
    <<"range", "header">>
    \o (IF input.accountID.has THEN <<"accountFilter">> ELSE <<>>)
    \o <<"amm", "owner", "pool1", "pool2">>
    \o (IF input.accountID.has THEN <<"lp">> ELSE <<>>)
    \o (IF input.issue1.currency # xrpCurrency THEN <<"frozen1">> ELSE <<>>)
    \o (IF input.issue2.currency # xrpCurrency THEN <<"frozen2">> ELSE <<>>)

\* The owner account of the decoded entry has no object at the snapshot.
OwnerMissing ==
    /\ ReadsTagged("owner") # {}
    /\ ~fetchLedgerObject(AccountKeylet(amm.account), lgrInfo.seq).found

\* C18: the reads of a request are issued one after the other in the
\* order range query, header resolution, account existence (with a
\* filter), AMM fetch, owner fetch, pool holdings of asset, pool holdings
\* of asset2, LP holdings (with a filter), frozen check of asset (when not
\* native), frozen check of asset2 (when not native); a request that ends
\* in a Response has issued exactly these; the owner fetch never precedes
\* the AMM fetch; a missing owner account ends the request with NotFound
\* before any balance is read.
C18_ReadOrder ==
    /\ Processed =>
        /\ Len(reads) <= Len(ExpectedTags)
        /\ TagsOfReads = SubSeq(ExpectedTags, 1, Len(reads))
    /\ result = ResponseResult => TagsOfReads = ExpectedTags
    /\ \A i \in ReadsTagged("owner") : \E j \in ReadsTagged("amm") : j < i
    /\ (pc = "done" /\ OwnerMissing) =>
        /\ result = ErrorResult(NotFound)
        /\ reads[Len(reads)].tag = "owner"

\* A reply to a request with an account filter for two issued assets: all
\* ten reads were issued.
C18_Witness ==
    /\ result = ResponseResult
    /\ Len(reads) = 10
    /\ TagsOfReads = <<"range", "header", "accountFilter", "amm", "owner",
                       "pool1", "pool2", "lp", "frozen1", "frozen2">>

-----------------------------------------------------------------------------
(* The outcomes of processing a request twice *)

C15_WitnessNoRange ==
    /\ run = 2
    /\ pc = "done"
    /\ ~range.has
    /\ first.result = ErrorResult(LedgerNotFound)

-----------------------------------------------------------------------------
(* The Tokenizer *)

\* The tokens that next has handed out so far, followed by those still in
\* the queue.
TokensHandedOut ==
    LET n == Cardinality({i \in 1..Len(returned) : returned[i].has})
    IN  [i \in 1..n |-> returned[i].v]

AllTokens == TokensHandedOut \o tokens_

RECURSIVE JoinTokens(_)
JoinTokens(ts) ==
    IF ts = <<>> THEN <<>>
    ELSE IF Len(ts) = 1 THEN ts[1]
    ELSE ts[1] \o <<Separator>> \o JoinTokens(Tail(ts))

SeparatorsIn(key) == Cardinality({i \in 1..Len(key) : key[i] = Separator})

\* C19: for a Tokenizer constructed from key k, the successive calls of
\* next return the maximal separator-free substrings of k in order: each
\* is non-empty and holds no separator, joining them with the separator
\* gives k back, there is one more of them than k has separators, and
\* once the last has been returned next returns nullopt.
C19_TokensAreTheParts ==
    tkPc = "built" =>
        /\ \A i \in 1..Len(AllTokens) :
            /\ AllTokens[i] # <<>>
            /\ SeparatorsIn(AllTokens[i]) = 0
        /\ JoinTokens(AllTokens) = key_
        /\ Len(AllTokens) = SeparatorsIn(key_) + 1
        /\ \A i \in 1..Len(returned) :
            IF i <= Len(AllTokens)
            THEN returned[i] = SomeToken(AllTokens[i])
            ELSE returned[i] = Nullopt /\ tokens_ = <<>>

\* The key "ab.a" has been read to its end and one call more was made.
C19_Witness ==
    /\ tkPc = "built"
    /\ key_ = <<"a", "b", Separator, "a">>
    /\ returned = <<SomeToken(<<"a", "b">>), SomeToken(<<"a">>), Nullopt>>

\* The keys that have an empty part: the empty key, and the keys that
\* start with the separator, end with it, or hold two of them in a row.
HasEmptyPart(key) ==
    \/ key = <<>>
    \/ key[1] = Separator
    \/ key[Len(key)] = Separator
    \/ \E i \in 1..(Len(key) - 1) : key[i] = Separator /\ key[i + 1] = Separator

\* C20: the constructor throws exactly for the empty key and for the keys
\* that start with the separator, end with it, or hold two adjacent
\* separators; for every other key it succeeds; and after a throw there
\* is no Tokenizer that tokens could be read from.
C20_ThrowsOnEmptyPart ==
    tkPc # "none" =>
        /\ tkPc = "threw" <=> HasEmptyPart(key_)
        /\ tkPc = "built" <=> ~HasEmptyPart(key_)
        /\ tkPc = "threw" => returned = <<>> /\ tokens_ = <<>>

\* The constructor has thrown on a key with two adjacent separators.
C20_Witness ==
    /\ tkPc = "threw"
    /\ key_ = <<"a", Separator, Separator, "b">>

=============================================================================
